---------------------------- MODULE Spec2Model ----------------------------
(***************************************************************************)
(* A model of docuvoice's service layer: decode / decodeAudioData,         *)
(* translateDocument, resolveLocation and generateSpeech.                  *)
(*                                                                         *)
(* A call is one step: the caller picks the arguments, the remote service  *)
(* (or the audio payload) is the environment's choice, and the step        *)
(* records what the call returned or threw.  The caller then takes the     *)
(* outcome (Return) and may call again.                                    *)
(*                                                                         *)
(* Strings that the code inspects character by character (base64 data,     *)
(* the geocoding reply) are sequences of one-character strings.            *)
(* JavaScript values that the code inspects dynamically (the parsed JSON   *)
(* payload) are tagged records: [t |-> "str", v |-> ...] and so on.        *)
(***************************************************************************)
EXTENDS Integers, Sequences, FiniteSets, TLC

VARIABLES pc, op, request, outcome, console

vars == <<pc, op, request, outcome, console>>

-----------------------------------------------------------------------------
(* Bounds of the model *)

\* longest audio payload, in bytes, that the environment draws freely
MaxBytes == 4

\* most fragments the geocoding reply text is assembled from
MaxParts == 3

\* longest list of grounding chunks
MaxChunks == 2

-----------------------------------------------------------------------------
(* Small helpers *)

RECURSIVE Concat(_)
Concat(seqs) ==
    IF seqs = <<>> THEN <<>> ELSE Head(seqs) \o Concat(Tail(seqs))

\* all sequences over S of length at most n
SeqsUpTo(S, n) == UNION {[1..k -> S] : k \in 0..n}

Min(S) == CHOOSE x \in S : \A y \in S : x <= y

-----------------------------------------------------------------------------
(* What a call produces *)

NoResult == [kind |-> "none"]
Returned(v) == [kind |-> "return", value |-> v]
Thrown(name, msg) == [kind |-> "throw", name |-> name, message |-> msg]

NoCall == [none |-> TRUE]
NoLog == <<>>

-----------------------------------------------------------------------------
(* Audio: base64 -> bytes -> 16-bit samples -> float samples *)

PCM_SCALE == 32768
DefaultSampleRate == 24000
numChannels == 1

B64Alphabet ==
    << "A","B","C","D","E","F","G","H","I","J","K","L","M","N","O","P",
       "Q","R","S","T","U","V","W","X","Y","Z","a","b","c","d","e","f",
       "g","h","i","j","k","l","m","n","o","p","q","r","s","t","u","v",
       "w","x","y","z","0","1","2","3","4","5","6","7","8","9","+","/" >>

B64Chars == {B64Alphabet[i] : i \in 1..64}

B64Index(c) == (CHOOSE i \in 1..64 : B64Alphabet[i] = c) - 1

\* The service's side of the contract: bytes -> base64 text, '=' padded.
Btoa(bytes) ==
    LET n == Len(bytes)
        nChars == (n * 8 + 5) \div 6
        byteAt(i) == IF i + 1 <= n THEN bytes[i + 1] ELSE 0
        sextet(j) ==
            LET i == (6 * j) \div 8
                r == (6 * j) % 8
            IN  CASE r = 0 -> byteAt(i) \div 4
                  [] r = 6 -> (byteAt(i) % 4) * 16 + byteAt(i + 1) \div 16
                  [] r = 4 -> (byteAt(i) % 16) * 4 + byteAt(i + 1) \div 64
                  [] r = 2 -> byteAt(i) % 64
        padded == ((nChars + 3) \div 4) * 4
    IN  [j \in 1..padded |->
            IF j <= nChars THEN B64Alphabet[sextet(j - 1) + 1] ELSE "="]

\* atob: forgiving-base64 decode.  One character of the result per byte.
\* Padding is stripped when the length is a multiple of 4; a length of
\* 1 mod 4 or a character outside the alphabet is an InvalidCharacterError.
atob(base64) ==
    LET len == Len(base64)
        nPad == IF len % 4 = 0 /\ len >= 2 /\ base64[len] = "="
                THEN (IF base64[len - 1] = "=" THEN 2 ELSE 1)
                ELSE 0
        body == SubSeq(base64, 1, len - nPad)
        m == Len(body)
    IN  IF m % 4 = 1 \/ \E i \in 1..m : body[i] \notin B64Chars
        THEN Thrown("InvalidCharacterError", "atob")
        ELSE LET v(j) == B64Index(body[j + 1])
                 nBytes == (m * 6) \div 8
                 byte(k) ==
                     LET j == (8 * k) \div 6
                         r == (8 * k) % 6
                     IN  CASE r = 0 -> v(j) * 4 + v(j + 1) \div 16
                           [] r = 2 -> (v(j) % 16) * 16 + v(j + 1) \div 4
                           [] r = 4 -> (v(j) % 4) * 64 + v(j + 1)
             IN  Returned([k \in 1..nBytes |-> byte(k - 1)])

\* function decode(base64): atob, then charCodeAt into a Uint8Array
decode(base64) ==
    LET binaryString == atob(base64)
    IN  IF binaryString.kind = "throw" THEN binaryString
        ELSE LET len == Len(binaryString.value)
             IN  Returned([i \in 1..len |-> binaryString.value[i]])

\* a 16-bit view that reads the high byte first
Int16ArrayOfBigEndian(bytes) ==
    IF Len(bytes) % 2 # 0
    THEN Thrown("RangeError", "byte length of Int16Array should be a multiple of 2")
    ELSE Returned([i \in 1..(Len(bytes) \div 2) |->
            LET u == 256 * bytes[2 * i - 1] + bytes[2 * i]
            IN  IF u >= 32768 THEN u - 65536 ELSE u])

\* a 16-bit view that drops a trailing odd byte instead of rejecting it
Int16ArrayOfTruncating(bytes) ==
    Returned([i \in 1..(Len(bytes) \div 2) |->
        LET u == bytes[2 * i - 1] + 256 * bytes[2 * i]
        IN  IF u >= 32768 THEN u - 65536 ELSE u])

\* new Int16Array(bytes.buffer): a view of the whole buffer, two bytes per
\* element, in the platform's byte order (low byte first on every platform
\* a browser runs on); a byte length that is not a multiple of 2 is a
\* RangeError.
Int16ArrayOf(bytes) ==
    IF Len(bytes) % 2 # 0
    THEN Thrown("RangeError", "byte length of Int16Array should be a multiple of 2")
    ELSE Returned([i \in 1..(Len(bytes) \div 2) |->
            LET u == bytes[2 * i - 1] + 256 * bytes[2 * i]
            IN  IF u >= 32768 THEN u - 65536 ELSE u])

\* ctx.createBuffer(numberOfChannels, length, sampleRate): the Web Audio
\* API throws NotSupportedError when the length is not at least 1.
createBuffer(channels, frameCount, sampleRate) ==
    IF frameCount <= 0
    THEN Thrown("NotSupportedError", "createBuffer")
    ELSE Returned([numberOfChannels |-> channels,
                   length |-> frameCount,
                   sampleRate |-> sampleRate])

\* dataInt16[i] / 32768.0, kept as an exact fraction (every such quotient
\* is exactly representable in the Float32Array it is stored in)
Sample(v) == [num |-> v, den |-> PCM_SCALE]

decodeAudioData(base64Data, sampleRate) ==
    LET bytes == decode(base64Data)
    IN  IF bytes.kind = "throw" THEN bytes
        ELSE
        LET dataInt16 == Int16ArrayOf(bytes.value)
        IN  IF dataInt16.kind = "throw" THEN dataInt16
            ELSE
            LET frameCount == Len(dataInt16.value) \div numChannels
                buffer == createBuffer(numChannels, frameCount, sampleRate)
            IN  IF buffer.kind = "throw" THEN buffer
                ELSE Returned(
                       [numberOfChannels |-> buffer.value.numberOfChannels,
                        length |-> buffer.value.length,
                        sampleRate |-> buffer.value.sampleRate,
                        channelData |->
                            [i \in 1..frameCount |->
                                Sample(dataInt16.value[(i - 1) * numChannels + 1])]])

\* Audio payloads the environment offers
ByteValues == {0, 1, 127, 128, 255}

\* 16-bit values 0, 16384, -16384, 32767, low byte first
ExamplePcm == <<0, 0, 0, 64, 0, 192, 255, 127>>

AudioPayloads == SeqsUpTo(ByteValues, MaxBytes) \cup {ExamplePcm}

\* base64 text that is no encoding of anything
BadBase64 == { <<"A">>, <<"A", "!", "A", "A">> }

-----------------------------------------------------------------------------
(* JavaScript values, as far as the service layer inspects them *)

Undef == [t |-> "undefined"]
Null == [t |-> "null"]
Bool(b) == [t |-> "bool", b |-> b]
Num(n) == [t |-> "num", n |-> n]
Str(s) == [t |-> "str", s |-> s]
Arr(items) == [t |-> "arr", items |-> items]
Obj(fields) == [t |-> "obj", fields |-> fields]

\* A non-empty response text, known by what JSON.parse makes of it: the
\* value it denotes, or nothing when it is not JSON.
JsonText(value) == [t |-> "str", json |-> [wellFormed |-> TRUE, denotes |-> value]]
NotJsonText == [t |-> "str", json |-> [wellFormed |-> FALSE]]

\* ToBoolean
Truthy(x) ==
    CASE x.t = "undefined" -> FALSE
      [] x.t = "null" -> FALSE
      [] x.t = "bool" -> x.b
      [] x.t = "num" -> x.n # 0
      [] x.t = "str" -> IF "s" \in DOMAIN x THEN x.s # ""
                        ELSE IF "chars" \in DOMAIN x THEN x.chars # <<>>
                        ELSE TRUE
      [] OTHER -> TRUE

\* a || b
Or(a, b) == IF Truthy(a) THEN a ELSE b

\* x.k throws a TypeError exactly when x is null or undefined
CanRead(x) == x.t \notin {"undefined", "null"}

\* x.k for a readable x: own fields of an object, undefined otherwise
Prop(x, k) ==
    IF x.t = "obj" /\ k \in DOMAIN x.fields THEN x.fields[k] ELSE Undef

\* x?.k
OptProp(x, k) == IF CanRead(x) THEN Prop(x, k) ELSE Undef

JSONparse(text) ==
    IF text.json.wellFormed
    THEN Returned(text.json.denotes)
    ELSE Thrown("SyntaxError", "JSON.parse")

\* an object literal from a record of field values; a field whose value is
\* undefined is left out
ObjOf(fields) ==
    Obj([k \in {f \in DOMAIN fields : fields[f].t # "undefined"} |-> fields[k]])

-----------------------------------------------------------------------------
(* translateDocument *)

CouldNotExtract == Str("Could not extract text.")
NoSummary == Str("No summary available.")
TranslateFailed == "Failed to translate document."

\* lines 115-124
OfficialInfoOf(result) ==
    IF Truthy(Prop(result, "isOfficialDocument"))
    THEN Obj([isOfficial |-> Bool(TRUE),
              goNumber |-> OptProp(Prop(result, "officialDetails"), "goNumber"),
              department |-> OptProp(Prop(result, "officialDetails"), "department"),
              date |-> OptProp(Prop(result, "officialDetails"), "date"),
              subject |-> OptProp(Prop(result, "officialDetails"), "subject")])
    ELSE Null

\* lines 126-132
NormalizedResult(result) ==
    [text |-> Or(Prop(result, "translation"), CouldNotExtract),
     summary |-> Or(Prop(result, "summary"), NoSummary),
     actionItems |-> Or(Prop(result, "actionItems"), Arr(<<>>)),
     address |-> Or(Prop(result, "address"), Null),
     officialInfo |-> OfficialInfoOf(result)]

\* an empty reply answered with the parsed path's summary placeholder
EmptyResultWithSummaryText ==
    [text |-> CouldNotExtract,
     summary |-> NoSummary,
     actionItems |-> Arr(<<>>),
     address |-> Null,
     officialInfo |-> Null]

\* line 135
EmptyResult ==
    [text |-> CouldNotExtract,
     summary |-> Str(""),
     actionItems |-> Arr(<<>>),
     address |-> Null,
     officialInfo |-> Null]

\* the try block: the awaited call, then lines 112-135
translateDocumentTry(reply) ==
    IF reply.kind = "throw" THEN reply
    ELSE IF Truthy(reply.value.text)
    THEN LET result == JSONparse(reply.value.text)
         IN  IF result.kind = "throw" THEN result
             ELSE IF ~CanRead(result.value)
             THEN Thrown("TypeError", "Cannot read properties of null")
             ELSE Returned(NormalizedResult(result.value))
    ELSE Returned(EmptyResult)

\* a catch block that rethrows what it caught
translateDocumentRethrow(error) == error

\* the catch block: log the cause, throw the generic error
translateDocumentCatch(error) == Thrown("Error", TranslateFailed)

translateDocument(reply) ==
    LET tried == translateDocumentTry(reply)
    IN  IF tried.kind = "throw" THEN translateDocumentCatch(tried) ELSE tried

translateDocumentLog(reply) ==
    LET tried == translateDocumentTry(reply)
    IN  IF tried.kind = "throw" THEN <<"Translation error:", tried>> ELSE NoLog

\* mode -> thinkingBudget
thinkingBudget(mode) == IF mode = "speed" THEN 0 ELSE 2048

Modes == {"speed", "detailed"}

\* What the remote service may send back for a translation
RemoteErrors == {Thrown("ApiError", "503 unavailable"), Thrown("TypeError", "fetch failed")}

FlagValues ==
    {Undef, Null, Bool(FALSE), Bool(TRUE), Num(0), Num(1), Str("false")}

DetailsValues ==
    {Undef, Null, ObjOf([goNumber |-> Str("GO-1")]),
     ObjOf([goNumber |-> Str("GO-1"), department |-> Str("Revenue"),
            date |-> Str("2024-01-01"), subject |-> Str("Land")])}

ObjectPayloads ==
    {ObjOf([translation |-> tr, summary |-> su, actionItems |-> ai,
            address |-> ad, isOfficialDocument |-> fl, officialDetails |-> de]) :
        tr \in {Undef, Str(""), Str("T")},
        su \in {Undef, Str(""), Str("S")},
        ai \in {Undef, Arr(<<>>), Arr(<<Str("a1"), Str("a2")>>)},
        ad \in {Undef, Null, Str("12 Main Road")},
        fl \in FlagValues,
        de \in DetailsValues}

OtherPayloads == {Null, Num(7), Num(0), Str("plain"), Bool(TRUE), Arr(<<>>)}

ResponseTexts ==
    {Undef, Null, Str(""), NotJsonText}
        \cup {JsonText(p) : p \in ObjectPayloads \cup OtherPayloads}

TranslateReplies ==
    RemoteErrors \cup {Returned([text |-> t]) : t \in ResponseTexts}

-----------------------------------------------------------------------------
(* resolveLocation *)

\* a string the code scans: its characters
Text(chars) == [t |-> "str", chars |-> chars]

\* a number read by parseFloat from decimal notation, as an exact fraction
Float(num, den) == [t |-> "num", num |-> num, den |-> den]

LowerCase == <<"a","b","c","d","e","f","g","h","i","j","k","l","m",
               "n","o","p","q","r","s","t","u","v","w","x","y","z">>
UpperCase == <<"A","B","C","D","E","F","G","H","I","J","K","L","M",
               "N","O","P","Q","R","S","T","U","V","W","X","Y","Z">>

\* the case folding of the i flag
Fold(c) ==
    IF \E i \in 1..26 : LowerCase[i] = c
    THEN UpperCase[CHOOSE i \in 1..26 : LowerCase[i] = c]
    ELSE c

Digits == <<"0","1","2","3","4","5","6","7","8","9">>
IsDigit(c) == \E i \in 1..10 : Digits[i] = c
DigitValue(c) == (CHOOSE i \in 1..10 : Digits[i] = c) - 1

\* \s
IsSpace(c) == c \in {" ", "\t", "\n", "\r"}

\* the end of a greedy \s* from index `from`: the first index not a space
RECURSIVE SkipSpaces(_, _)
SkipSpaces(text, from) ==
    IF from <= Len(text) /\ IsSpace(text[from])
    THEN SkipSpaces(text, from + 1)
    ELSE from

\* the end of a greedy \d* from index `from`: the first index not a digit
RECURSIVE SkipDigits(_, _)
SkipDigits(text, from) ==
    IF from <= Len(text) /\ IsDigit(text[from])
    THEN SkipDigits(text, from + 1)
    ELSE from

\* `literal` matches at index p, ignoring case
LiteralAt(text, p, literal) ==
    /\ p + Len(literal) - 1 <= Len(text)
    /\ \A i \in 1..Len(literal) : Fold(text[p + i - 1]) = Fold(literal[i])

\* /<marker>\s*(-?\d+(\.\d+)?)/ anchored at index p: the span of group 1,
\* or no match.  Greedy, and no shorter choice can rescue a failed match.
MarkerAt(text, p, marker) ==
    IF ~LiteralAt(text, p, marker) THEN [matched |-> FALSE]
    ELSE
    LET afterSpace == SkipSpaces(text, p + Len(marker))
        afterSign == IF afterSpace <= Len(text) /\ text[afterSpace] = "-"
                     THEN afterSpace + 1 ELSE afterSpace
        afterInt == SkipDigits(text, afterSign)
        afterFrac == IF afterInt <= Len(text) /\ text[afterInt] = "."
                     THEN SkipDigits(text, afterInt + 1) ELSE afterInt
        last == IF afterFrac > afterInt + 1 THEN afterFrac - 1 ELSE afterInt - 1
    IN  IF afterInt = afterSign THEN [matched |-> FALSE]
        ELSE [matched |-> TRUE, group1 |-> SubSeq(text, afterSpace, last)]

\* text.match(/<marker>\s*(-?\d+(\.\d+)?)/i): the leftmost match, or null
Match(text, marker) ==
    LET hits == {p \in 1..Len(text) : MarkerAt(text, p, marker).matched}
    IN  IF hits = {} THEN [matched |-> FALSE]
        ELSE MarkerAt(text, Min(hits), marker)

RECURSIVE DigitsValue(_)
DigitsValue(ds) ==
    IF ds = <<>> THEN 0
    ELSE 10 * DigitsValue(SubSeq(ds, 1, Len(ds) - 1)) + DigitValue(ds[Len(ds)])

RECURSIVE Pow10(_)
Pow10(n) == IF n = 0 THEN 1 ELSE 10 * Pow10(n - 1)

\* parseFloat of a string of the shape -?\d+(\.\d+)?
parseFloat(str) ==
    LET neg == str[1] = "-"
        body == IF neg THEN Tail(str) ELSE str
        intEnd == SkipDigits(body, 1)
        intPart == SubSeq(body, 1, intEnd - 1)
        fracPart == SubSeq(body, intEnd + 1, Len(body))
        magnitude == DigitsValue(intPart) * Pow10(Len(fracPart)) + DigitsValue(fracPart)
    IN  Float(IF neg THEN -magnitude ELSE magnitude, Pow10(Len(fracPart)))

LAT == <<"L", "A", "T", ":">>
LNG == <<"L", "N", "G", ":">>

\* each coordinate taken from its own match alone
CoordinatesEachAlone(text) ==
    LET latMatch == Match(text, LAT)
        lngMatch == Match(text, LNG)
    IN  [latitude |-> IF latMatch.matched
                      THEN parseFloat(latMatch.group1) ELSE Undef,
         longitude |-> IF lngMatch.matched
                       THEN parseFloat(lngMatch.group1) ELSE Undef]

\* lines 155-166: both markers or neither
Coordinates(text) ==
    LET latMatch == Match(text, LAT)
        lngMatch == Match(text, LNG)
    IN  IF latMatch.matched /\ lngMatch.matched
        THEN [latitude |-> parseFloat(latMatch.group1),
              longitude |-> parseFloat(lngMatch.group1)]
        ELSE [latitude |-> Undef, longitude |-> Undef]

\* x?.[0]
OptFirst(x) ==
    IF x.t = "arr" /\ Len(x.items) >= 1 THEN x.items[1] ELSE Undef

\* line 170
GroundingChunksOf(response) ==
    OptProp(OptProp(OptFirst(response.candidates), "groundingMetadata"),
            "groundingChunks")

\* the loop without its break: the last chunk with a web.uri wins
RECURSIVE ScanChunksNoBreak(_)
ScanChunksNoBreak(chunks) ==
    IF chunks = <<>> THEN Undef
    ELSE LET later == ScanChunksNoBreak(Tail(chunks))
         IN  IF later.t # "undefined" THEN later
             ELSE IF Truthy(OptProp(Prop(Head(chunks), "web"), "uri"))
             THEN Prop(Prop(Head(chunks), "web"), "uri")
             ELSE Undef

\* lines 172-178: the loop stops at the first chunk with a truthy web.uri
RECURSIVE ScanChunks(_)
ScanChunks(chunks) ==
    IF chunks = <<>> THEN Undef
    ELSE IF Truthy(OptProp(Prop(Head(chunks), "web"), "uri"))
    THEN Prop(Prop(Head(chunks), "web"), "uri")
    ELSE ScanChunks(Tail(chunks))

\* lines 168-179
MapUriOf(response) ==
    LET groundingChunks == GroundingChunksOf(response)
    IN  IF Truthy(groundingChunks)
        THEN ScanChunks(groundingChunks.items)
        ELSE Undef

\* the try block: the awaited call, then lines 155-181
resolveLocationTry(reply) ==
    IF reply.kind = "throw" THEN reply
    ELSE LET text == IF Truthy(reply.value.text)
                     THEN reply.value.text.chars ELSE <<>>
             coords == Coordinates(text)
         IN  Returned(Obj([latitude |-> coords.latitude,
                           longitude |-> coords.longitude,
                           mapUri |-> MapUriOf(reply.value)]))

\* a catch block that lets the error out
resolveLocationRethrow(error) == error

\* the catch block: log the cause, return {}
resolveLocationCatch(error) == Returned(Obj(<<>>))

resolveLocation(reply) ==
    LET tried == resolveLocationTry(reply)
    IN  IF tried.kind = "throw" THEN resolveLocationCatch(tried) ELSE tried

resolveLocationLog(reply) ==
    LET tried == resolveLocationTry(reply)
    IN  IF tried.kind = "throw" THEN <<"Location resolution error:", tried>> ELSE NoLog

\* Reply texts: up to MaxParts fragments in any order, and the documented
\* examples
Fragments ==
    { <<"L", "A", "T", ":">>,
      <<"l", "n", "g", ":", " ", "-", "7">>,
      <<"1", "2">>,
      <<".", "5">>,
      <<" ">>,
      <<"x">> }

ExampleBoth ==
    <<"L","A","T",":"," ","1","2",".","9","7","1","6",","," ",
      "L","N","G",":"," ","7","7",".","5","9","4","6">>
ExampleLatOnly == <<"L","A","T",":"," ","1","2",".","3","4">>

ExampleTexts ==
    { ExampleBoth,
      ExampleLatOnly,
      <<"L","n","g",":","\n","-","0",".","5"," ","l","a","t",":","3",".">>,
      <<"L","A","T",":"," ","-","x"," ","L","N","G",":"," ","4">> }

ReplyTexts ==
    {Concat(parts) : parts \in SeqsUpTo(Fragments, MaxParts)} \cup ExampleTexts

WebChunk(uri) == Obj([web |-> Obj([uri |-> Str(uri), title |-> Str("place")])])

MapsChunk == Obj([maps |-> Obj([title |-> Str("place")])])
WebChunkNoUri == Obj([web |-> Obj([title |-> Str("place")])])

ChunkKinds ==
    { MapsChunk,
      WebChunk("https://maps.example/a"),
      WebChunk("https://maps.example/b") }

\* lists of up to MaxChunks chunks, and a web chunk that carries no uri
ChunkLists ==
    SeqsUpTo(ChunkKinds, MaxChunks)
        \cup { <<WebChunkNoUri>>,
               <<WebChunkNoUri, WebChunk("https://maps.example/b")>> }

Candidates ==
    { Undef,
      Arr(<<>>),
      Arr(<<Obj([index |-> Num(0)])>>),
      Arr(<<Obj([groundingMetadata |-> Obj([webSearchQueries |-> Arr(<<>>)])])>>) }
    \cup { Arr(<<Obj([groundingMetadata |-> Obj([groundingChunks |-> Arr(chunks)])])>>) :
             chunks \in ChunkLists }

LocationReplies ==
    RemoteErrors
        \cup { Returned([text |-> Undef, candidates |-> c]) : c \in Candidates }
        \cup { Returned([text |-> Text(chars), candidates |-> c]) :
                 chars \in ReplyTexts, c \in Candidates }

-----------------------------------------------------------------------------
(* generateSpeech *)

SpeechFailed == "Failed to generate speech."

\* line 203
AudioDataOf(response) ==
    OptProp(OptProp(OptFirst(OptProp(OptProp(OptFirst(response.candidates),
        "content"), "parts")), "inlineData"), "data")

\* the try block
generateSpeechTry(reply) ==
    IF reply.kind = "throw" THEN reply
    ELSE LET audioData == AudioDataOf(reply.value)
         IN  IF ~Truthy(audioData)
             THEN Thrown("Error", "No audio data received.")
             ELSE Returned(audioData)

\* the catch block: log the cause, throw the generic error
generateSpeechCatch(error) == Thrown("Error", SpeechFailed)

generateSpeech(reply) ==
    LET tried == generateSpeechTry(reply)
    IN  IF tried.kind = "throw" THEN generateSpeechCatch(tried) ELSE tried

generateSpeechLog(reply) ==
    LET tried == generateSpeechTry(reply)
    IN  IF tried.kind = "throw" THEN <<"TTS error:", tried>> ELSE NoLog

PartOf(fields) == Arr(<<Obj([content |-> Obj([parts |-> Arr(<<Obj(fields)>>)])])>>)

SpeechCandidates ==
    { Undef,
      Arr(<<>>),
      Arr(<<Obj([index |-> Num(0)])>>),
      Arr(<<Obj([content |-> Obj([role |-> Str("model")])])>>),
      Arr(<<Obj([content |-> Obj([parts |-> Arr(<<>>)])])>>),
      PartOf([text |-> Str("hello")]),
      PartOf([inlineData |-> Obj([mimeType |-> Str("audio/pcm")])]),
      PartOf([inlineData |-> Obj([data |-> Null])]),
      PartOf([inlineData |-> Obj([data |-> Text(<<>>)])]) }
    \cup { PartOf([inlineData |-> Obj([data |-> Text(Btoa(payload))])]) :
             payload \in AudioPayloads \ {<<>>} }

SpeechReplies ==
    RemoteErrors \cup { Returned([candidates |-> c]) : c \in SpeechCandidates }

-----------------------------------------------------------------------------
(* The state machine *)

Init ==
    /\ pc = "idle"
    /\ op = "none"
    /\ request = NoCall
    /\ outcome = NoResult
    /\ console = NoLog

DecodeAudioData ==
    /\ pc = "idle"
    /\ \E payload \in AudioPayloads :
         /\ request' = [bytes |-> payload, base64Data |-> Btoa(payload),
                        sampleRate |-> DefaultSampleRate]
         /\ outcome' = decodeAudioData(Btoa(payload), DefaultSampleRate)
    /\ op' = "decodeAudioData"
    /\ pc' = "done"
    /\ console' = NoLog

DecodeBadAudioData ==
    /\ pc = "idle"
    /\ \E text \in BadBase64 :
         /\ request' = [bytes |-> <<>>, base64Data |-> text,
                        sampleRate |-> DefaultSampleRate]
         /\ outcome' = decodeAudioData(text, DefaultSampleRate)
    /\ op' = "decodeAudioData"
    /\ pc' = "done"
    /\ console' = NoLog

TranslateDocument ==
    /\ pc = "idle"
    /\ \E mode \in Modes, reply \in TranslateReplies :
         /\ request' = [mode |-> mode, thinkingBudget |-> thinkingBudget(mode),
                        reply |-> reply]
         /\ outcome' = translateDocument(reply)
         /\ console' = translateDocumentLog(reply)
    /\ op' = "translateDocument"
    /\ pc' = "done"

ResolveLocation ==
    /\ pc = "idle"
    /\ \E reply \in LocationReplies :
         /\ request' = [reply |-> reply]
         /\ outcome' = resolveLocation(reply)
         /\ console' = resolveLocationLog(reply)
    /\ op' = "resolveLocation"
    /\ pc' = "done"

GenerateSpeech ==
    /\ pc = "idle"
    /\ \E reply \in SpeechReplies :
         /\ request' = [reply |-> reply]
         /\ outcome' = generateSpeech(reply)
         /\ console' = generateSpeechLog(reply)
    /\ op' = "generateSpeech"
    /\ pc' = "done"

Return ==
    /\ pc = "done"
    /\ pc' = "idle"
    /\ op' = "none"
    /\ request' = NoCall
    /\ outcome' = NoResult
    /\ console' = NoLog

Next ==
    \/ DecodeAudioData
    \/ DecodeBadAudioData
    \/ TranslateDocument
    \/ ResolveLocation
    \/ GenerateSpeech
    \/ Return

Spec == Init /\ [][Next]_vars

-----------------------------------------------------------------------------
(* Properties *)

Done(o) == pc = "done" /\ op = o

\* the remote call succeeded
Replied == request.reply.kind = "return"

\* the response text of a translation reply is empty, null or absent
EmptyText(text) ==
    \/ text.t \in {"undefined", "null"}
    \/ text.t = "str" /\ "s" \in DOMAIN text /\ text.s = ""

\* the response text of a translation reply is non-empty
HasText == Replied /\ ~EmptyText(request.reply.value.text)

\* ... and parses as JSON
Parses == HasText /\ request.reply.value.text.json.wellFormed

\* what it parses to
Payload == request.reply.value.text.json.denotes

\* field f of the payload carries no value
Missing(f) == Payload.t # "obj" \/ f \notin DOMAIN Payload.fields

\* C1: a successful reply whose text is empty, null or absent is answered,
\* without error, by exactly the canonical empty result: the placeholder
\* text, an empty summary, an empty action list, a null address and null
\* official info.
C1_EmptyReplyCanonical ==
    (Done("translateDocument") /\ Replied /\ EmptyText(request.reply.value.text))
        => /\ outcome.kind = "return"
           /\ outcome.value.text = Str("Could not extract text.")
           /\ outcome.value.summary = Str("")
           /\ outcome.value.actionItems = Arr(<<>>)
           /\ outcome.value.address.t = "null"
           /\ outcome.value.officialInfo.t = "null"

C1_Witness ==
    /\ Done("translateDocument") /\ Replied
    /\ request.reply.value.text.t = "null"
    /\ outcome.kind = "return"

\* C2 (as claimed): officialInfo is not null if and only if the payload's
\* isOfficialDocument flag is the boolean true; when it is not null its
\* isOfficial field is true.
C2_OfficialIffFlagTrue ==
    (Done("translateDocument") /\ Parses /\ outcome.kind = "return")
        => /\ (outcome.value.officialInfo.t # "null")
                <=> (~Missing("isOfficialDocument")
                     /\ Payload.fields.isOfficialDocument.t = "bool"
                     /\ Payload.fields.isOfficialDocument.b)
           /\ (outcome.value.officialInfo.t # "null")
                => outcome.value.officialInfo.fields.isOfficial = Bool(TRUE)

\* the text of a geocoding reply, as the code scans it
ScannedText ==
    IF request.reply.value.text.t = "str" THEN request.reply.value.text.chars ELSE <<>>

Latitude == Prop(outcome.value, "latitude")
Longitude == Prop(outcome.value, "longitude")
MapUri == Prop(outcome.value, "mapUri")

\* C3: latitude is defined iff longitude is, and both are defined exactly
\* when the text holds a number after "LAT:" and a number after "LNG:"
\* (either case); one marker alone gives neither.  The values are the
\* numbers written: "LAT: 12.9716, LNG: 77.5946" gives 12.9716 and 77.5946,
\* and "LAT: 12.34" alone gives no coordinates.
C3_CoordinatesPaired ==
    (Done("resolveLocation") /\ Replied)
        => /\ (Latitude.t # "undefined") <=> (Longitude.t # "undefined")
           /\ (Latitude.t # "undefined")
                <=> (Match(ScannedText, LAT).matched /\ Match(ScannedText, LNG).matched)
           /\ ScannedText = ExampleBoth
                => /\ Latitude = Float(129716, 10000)
                   /\ Longitude = Float(775946, 10000)
           /\ ScannedText = ExampleLatOnly
                => /\ Latitude.t = "undefined"
                   /\ Longitude.t = "undefined"

C3_Witness ==
    /\ Done("resolveLocation") /\ Replied
    /\ Match(ScannedText, LAT).matched
    /\ ~Match(ScannedText, LNG).matched
    /\ Latitude.t = "undefined"

\* C4: a failed remote call or a throwing parse makes translateDocument
\* throw Error("Failed to translate document."); a failed remote call or a
\* reply without audio data makes generateSpeech throw
\* Error("Failed to generate speech.").  Whatever the cause, the error
\* thrown is that one and no result is returned.
C4_GenericErrors ==
    /\ Done("translateDocument")
        => /\ (~Replied \/ (HasText /\ ~Parses))
                => outcome.kind = "throw"
           /\ outcome.kind = "throw"
                => outcome = Thrown("Error", "Failed to translate document.")
    /\ Done("generateSpeech")
        => /\ (~Replied \/ ~Truthy(AudioDataOf(request.reply.value)))
                => outcome.kind = "throw"
           /\ outcome.kind = "throw"
                => outcome = Thrown("Error", "Failed to generate speech.")

C4_Witness ==
    /\ Done("translateDocument")
    /\ HasText /\ ~Parses
    /\ outcome.kind = "throw"
    /\ console[2].name = "SyntaxError"

\* C5: resolveLocation always completes with a result, and when the remote
\* call fails the result is {}: latitude, longitude and mapUri all unset.
C5_LocationNeverThrows ==
    Done("resolveLocation")
        => /\ outcome.kind = "return"
           /\ ~Replied
                => /\ DOMAIN outcome.value.fields = {}
                   /\ Latitude.t = "undefined"
                   /\ Longitude.t = "undefined"
                   /\ MapUri.t = "undefined"

C5_Witness ==
    /\ Done("resolveLocation")
    /\ ~Replied
    /\ outcome.kind = "return"

\* the grounding references of a geocoding reply, in order (none when the
\* list is absent)
References ==
    LET chunks == GroundingChunksOf(request.reply.value)
    IN  IF chunks.t = "arr" THEN chunks.items ELSE <<>>

\* reference c exposes a web URI
ExposesWebUri(c) ==
    /\ "web" \in DOMAIN c.fields
    /\ "uri" \in DOMAIN c.fields.web.fields
    /\ c.fields.web.fields.uri.s # ""

\* C6: mapUri is the web URI of the first reference, in list order, that
\* exposes one; it is unset when the list is absent, empty or holds no such
\* reference.  The text, and so whether coordinates matched, plays no part.
C6_FirstWebUri ==
    (Done("resolveLocation") /\ Replied)
        => LET with == {i \in 1..Len(References) : ExposesWebUri(References[i])}
           IN  IF with = {}
               THEN MapUri.t = "undefined"
               ELSE MapUri = References[Min(with)].fields.web.fields.uri

C6_Witness ==
    /\ Done("resolveLocation") /\ Replied
    /\ Len(References) = 2
    /\ ~ExposesWebUri(References[1])
    /\ ExposesWebUri(References[2])
    /\ MapUri.t = "str"
    /\ Latitude.t = "undefined"

\* the call decoded the base64 encoding of request.bytes
Encoded == request.base64Data = Btoa(request.bytes)

\* the signed 16-bit little-endian integer at bytes b[2i], b[2i+1] (0-based)
Pcm16(b, i) ==
    LET u == b[2 * i + 1] + 256 * b[2 * i + 2]
    IN  IF u >= 32768 THEN u - 65536 ELSE u

\* the buffer holds n frames, one channel, and sample i is Pcm16(b, i)/32768
DecodesTo(b, n) ==
    /\ outcome.kind = "return"
    /\ outcome.value.numberOfChannels = 1
    /\ outcome.value.length = n
    /\ Len(outcome.value.channelData) = n
    /\ \A i \in 0..(n - 1) :
         LET sample == outcome.value.channelData[i + 1]
         IN  /\ sample.den = 32768
             /\ sample.num = Pcm16(b, i)
             /\ -sample.den <= sample.num
             /\ sample.num < sample.den

\* C7 (as claimed): every even-length byte sequence of length 2n decodes to
\* a mono buffer of exactly n frames, sample i being v_i / 32768.
C7_EveryEvenLength ==
    (Done("decodeAudioData") /\ Encoded /\ Len(request.bytes) % 2 = 0)
        => DecodesTo(request.bytes, Len(request.bytes) \div 2)

\* C7 (amended): every non-empty even-length byte sequence of length 2n
\* decodes to a mono buffer of exactly n frames, sample i being v_i / 32768
\* with v_i the signed 16-bit little-endian integer at bytes 2i, 2i+1; every
\* sample lies in [-1, 1); 16-bit values 0, 16384, -16384, 32767 decode to
\* 0, 0.5, -0.5, 32767/32768 at frame count 4.
C7_NonEmptyEvenLength ==
    (Done("decodeAudioData") /\ Encoded
        /\ Len(request.bytes) % 2 = 0 /\ Len(request.bytes) >= 2)
        => /\ DecodesTo(request.bytes, Len(request.bytes) \div 2)
           /\ request.bytes = ExamplePcm
                => /\ outcome.value.length = 4
                   /\ outcome.value.channelData =
                        << [num |-> 0, den |-> 32768],
                           [num |-> 16384, den |-> 32768],
                           [num |-> -16384, den |-> 32768],
                           [num |-> 32767, den |-> 32768] >>

C7_Witness ==
    /\ Done("decodeAudioData") /\ Encoded
    /\ request.bytes = <<0, 128, 255, 127>>
    /\ outcome.kind = "return"
    /\ outcome.value.channelData[1].num = -32768

\* C8 (as claimed): every non-empty response text that parses as JSON,
\* whatever it parses to, is answered with a result and no error.
C8_ParseableNeverFails ==
    (Done("translateDocument") /\ Parses) => outcome.kind = "return"

\* C9 (as claimed): in every result, a field missing from the payload (or
\* the whole payload missing) has its placeholder: summary "", actionItems
\* [], address null, officialInfo null.
C9_SamePlaceholders ==
    (Done("translateDocument") /\ Replied /\ outcome.kind = "return")
        => LET absent(f) == ~HasText \/ Missing(f)
           IN  /\ absent("summary") => outcome.value.summary = Str("")
               /\ absent("actionItems") => outcome.value.actionItems = Arr(<<>>)
               /\ absent("address") => outcome.value.address.t = "null"
               /\ absent("isOfficialDocument")
                    => outcome.value.officialInfo.t = "null"

\* C10 (as claimed): an odd-length buffer of 2n+1 bytes decodes without
\* error to the n frames of its first 2n bytes.
C10_OddLengthTruncated ==
    (Done("decodeAudioData") /\ Encoded /\ Len(request.bytes) % 2 = 1)
        => DecodesTo(request.bytes, Len(request.bytes) \div 2)

\* C10 (amended): an odd-length buffer of 2n+1 bytes is not truncated: the
\* 16-bit view rejects it with a RangeError and no buffer is returned.
C10_OddLengthRejected ==
    (Done("decodeAudioData") /\ Encoded /\ Len(request.bytes) % 2 = 1)
        => /\ outcome.kind = "throw"
           /\ outcome.name = "RangeError"

C10_Witness ==
    /\ Done("decodeAudioData") /\ Encoded
    /\ Len(request.bytes) = 3
    /\ outcome.kind = "throw"

=============================================================================
